---- MODULE Spec2Model ----
(***************************************************************************)
(* Snake game for the micro:bit (source/main.cpp): the game-state machine  *)
(* (stepGame and what it calls), the host loop of main() and the two       *)
(* button handlers that write the pending turn.                            *)
(*                                                                         *)
(* The C array tail[MAX_SNAKE_LENGTH] is modelled by the sequence of its    *)
(* first tailLength slots: tail[i] of the program is tail[i + 1] here.     *)
(* The slots at tailLength and above are never read by the program.        *)
(***************************************************************************)
EXTENDS Integers, Sequences, FiniteSets, TLC

\* ------------------------------------------------------------ constants
MAX_SNAKE_LENGTH == 24
GRID_SIZE == 5

\* bounds of the exploration
MaxSteps == 3

Direction == {"UP", "DOWN", "LEFT", "RIGHT"}
Turn == {"TURN_NONE", "TURN_LEFT", "TURN_RIGHT"}
GameStatus == {"ONGOING", "WON", "LOST"}
StepOutcome == {"MOVE", "EAT", "COLLISION", "FULL"}

Coords(r, c) == [row |-> r, col |-> c]

\* every value rand() % GRID_SIZE can give, on both axes
Grid == {Coords(r, c) : r \in 0 .. GRID_SIZE - 1, c \in 0 .. GRID_SIZE - 1}

\* uint8_t arithmetic of score and speed
U8(n) == n % 256

VARIABLES
    game,         \* the global Game game
    currentTurn,  \* the global Turn currentTurn
    pc,           \* position of main(): "sleep", "clear", "flash", "score", "spin"
                  \* ("loop", before the sleep, in SpecStepLength only)
    steps,        \* stepGame calls of this round (bounded by MaxSteps)
    overwritten,  \* between the last two steps (or since the last one) a
                  \* handler wrote over a turn written there
    lastQueued,   \* the turn the handlers wrote last between those steps
    writeApplied, \* how many times the latest written turn was applied
    before,       \* the game the last step classified: game as it was after
                  \* line 382 of that step (the game itself before any step)
    byAge,        \* the tail cells, the one longest in the body first
    lastOutcome,  \* outcome of the last step, "NONE" after initGame
    sleepMs,      \* the argument of the last uBit.sleep of line 118
    resetCleared  \* the pending turn resetGame overwrote with TURN_NONE,
                  \* "NO_RESET" once a step followed (or before any reset)

vars == <<game, currentTurn, pc, steps, overwritten, lastQueued,
          writeApplied, before, byAge, lastOutcome, sleepMs, resetCleared>>

\* ------------------------------------------------------- pure functions
coordsEqual(a, b) == a.row = b.row /\ a.col = b.col

\* coordsInSnake without the test of the head
coordsInSnake_TailOnly(g, coords) ==
    \E i \in 0 .. g.snake.tailLength - 1 :
        coordsEqual(coords, g.snake.tail[i + 1])

coordsInSnake(g, coords) ==
    \/ coordsEqual(coords, g.snake.head)
    \/ \E i \in 0 .. g.snake.tailLength - 1 :
           coordsEqual(coords, g.snake.tail[i + 1])

\* the values getRandomCoords can return: the do-while loop leaves only
\* with a cell that is not in the snake
getRandomCoords(g) == {coords \in Grid : ~coordsInSnake(g, coords)}

\* wraparound that leaves the column as it is
wraparound_RowOnly(coords) ==
    [row |-> IF coords.row < 0 THEN GRID_SIZE - 1
             ELSE IF coords.row >= GRID_SIZE THEN 0 ELSE coords.row,
     col |-> coords.col]

wraparound(coords) ==
    [row |-> IF coords.row < 0 THEN GRID_SIZE - 1
             ELSE IF coords.row >= GRID_SIZE THEN 0 ELSE coords.row,
     col |-> IF coords.col < 0 THEN GRID_SIZE - 1
             ELSE IF coords.col >= GRID_SIZE THEN 0 ELSE coords.col]

isOutOfBounds(coords) ==
    \/ coords.row < 0 \/ coords.row >= GRID_SIZE
    \/ coords.col < 0 \/ coords.col >= GRID_SIZE

getNextMove(g) ==
    LET h == g.snake.head
        d == g.snake.direction
        nextMove == CASE d = "UP"    -> Coords(h.row - 1, h.col)
                      [] d = "DOWN"  -> Coords(h.row + 1, h.col)
                      [] d = "LEFT"  -> Coords(h.row, h.col - 1)
                      [] d = "RIGHT" -> Coords(h.row, h.col + 1)
    IN  IF isOutOfBounds(nextMove) THEN wraparound(nextMove) ELSE nextMove

\* getStepOutcome with the exemption taken at the other end of the array
getStepOutcome_ExemptLast(g) ==
    LET nextMove == getNextMove(g)
    IN  IF /\ coordsInSnake(g, nextMove)
           /\ ~coordsEqual(nextMove, g.snake.tail[g.snake.tailLength])
        THEN "COLLISION"
        ELSE IF coordsEqual(nextMove, g.foodCoords)
             THEN IF g.snake.tailLength >= MAX_SNAKE_LENGTH - 1
                  THEN "FULL" ELSE "EAT"
             ELSE "MOVE"

\* getStepOutcome with the grid-full test one segment late
getStepOutcome_LateFull(g) ==
    LET nextMove == getNextMove(g)
    IN  IF coordsInSnake(g, nextMove) /\ ~coordsEqual(nextMove, g.snake.tail[0 + 1])
        THEN "COLLISION"
        ELSE IF coordsEqual(nextMove, g.foodCoords)
             THEN IF g.snake.tailLength >= MAX_SNAKE_LENGTH
                  THEN "FULL" ELSE "EAT"
             ELSE "MOVE"

\* getStepOutcome with the grid-full test one segment early
getStepOutcome_EarlyFull(g) ==
    LET nextMove == getNextMove(g)
    IN  IF coordsInSnake(g, nextMove) /\ ~coordsEqual(nextMove, g.snake.tail[0 + 1])
        THEN "COLLISION"
        ELSE IF coordsEqual(nextMove, g.foodCoords)
             THEN IF g.snake.tailLength >= MAX_SNAKE_LENGTH - 2
                  THEN "FULL" ELSE "EAT"
             ELSE "MOVE"

getStepOutcome(g) ==
    LET nextMove == getNextMove(g)
    IN  IF coordsInSnake(g, nextMove) /\ ~coordsEqual(nextMove, g.snake.tail[0 + 1])
        THEN "COLLISION"
        ELSE IF coordsEqual(nextMove, g.foodCoords)
             THEN IF g.snake.tailLength >= MAX_SNAKE_LENGTH - 1
                  THEN "FULL" ELSE "EAT"
             ELSE "MOVE"

\* moveSnake whose non-extending branch shortens the tail by the segment it
\* drops
moveSnake_DropsSegment(s, coords, extend) ==
    LET n == s.tailLength
    IN  IF ~extend
        THEN [s EXCEPT !.tail = SubSeq(s.tail, 2, n),
                       !.tailLength = n - 1,
                       !.head = coords]
        ELSE [s EXCEPT !.tail = <<s.head>> \o SubSeq(s.tail, 1, n),
                       !.tailLength = n + 1,
                       !.head = coords]

\* the snake after moveSnake(coords, extend)
moveSnake(s, coords, extend) ==
    LET n == s.tailLength
    IN  IF ~extend
        THEN \* tail[i] = tail[i + 1] for i < n - 1, then tail[n - 1] = head
             [s EXCEPT !.tail = Append(SubSeq(s.tail, 2, n), s.head),
                       !.head = coords]
        ELSE \* tail[i] = tail[i - 1] for i = n down to 1, then tail[0] = head
             [s EXCEPT !.tail = <<s.head>> \o SubSeq(s.tail, 1, n),
                       !.tailLength = n + 1,
                       !.head = coords]

\* the indices of tail[] that moveSnake(coords, extend) reads or writes on
\* snake s: the loop of lines 286-288 and line 290, or the loop of lines
\* 293-295 and line 297
moveSnakeIndices(s, extend) ==
    LET n == s.tailLength
    IN  IF ~extend
        THEN UNION {{i, i + 1} : i \in 0 .. n - 2} \cup {n - 1}
        ELSE UNION {{i, i - 1} : i \in 1 .. n} \cup {0}

\* the indices of tail[] that coordsInSnake(coords) reads: none when the
\* head matches, else every index up to the first match
coordsInSnakeIndices(g, coords) ==
    LET matches == {i \in 0 .. g.snake.tailLength - 1 :
                       coordsEqual(coords, g.snake.tail[i + 1])}
    IN  IF coordsEqual(coords, g.snake.head) THEN {}
        ELSE IF matches = {} THEN 0 .. g.snake.tailLength - 1
        ELSE 0 .. (CHOOSE i \in matches : \A j \in matches : i <= j)

\* the indices of tail[] that displayGameState reads
displayGameStateIndices(g) == 0 .. g.snake.tailLength - 1

\* handleStepOutcome whose FULL case forgets to set the status
handleStepOutcome_FullKeepsStatus(g, outcome, food) ==
    LET nextMove == getNextMove(g)
    IN  CASE outcome = "COLLISION" -> [g EXCEPT !.status = "LOST"]
          [] outcome = "FULL" ->
                [g EXCEPT !.snake = moveSnake(g.snake, nextMove, TRUE)]
          [] outcome = "EAT" ->
                [g EXCEPT !.snake = moveSnake(g.snake, nextMove, TRUE),
                          !.foodCoords = food,
                          !.score = U8(g.score + 1),
                          !.speed = IF U8(g.score + 1) % 5 = 0
                                    THEN U8(g.speed + 1) ELSE g.speed]
          [] outcome = "MOVE" ->
                [g EXCEPT !.snake = moveSnake(g.snake, nextMove, FALSE)]

\* handleStepOutcome that tests the score for a multiple of 5 before
\* incrementing it
handleStepOutcome_SpeedOnOldScore(g, outcome, food) ==
    LET nextMove == getNextMove(g)
    IN  CASE outcome = "COLLISION" -> [g EXCEPT !.status = "LOST"]
          [] outcome = "FULL" ->
                [g EXCEPT !.snake = moveSnake(g.snake, nextMove, TRUE),
                          !.status = "WON"]
          [] outcome = "EAT" ->
                [g EXCEPT !.snake = moveSnake(g.snake, nextMove, TRUE),
                          !.foodCoords = food,
                          !.score = U8(g.score + 1),
                          !.speed = IF g.score % 5 = 0
                                    THEN U8(g.speed + 1) ELSE g.speed]
          [] outcome = "MOVE" ->
                [g EXCEPT !.snake = moveSnake(g.snake, nextMove, FALSE)]

\* handleStepOutcome whose COLLISION case lacks its break and runs into the
\* FULL case
handleStepOutcome_CollisionFallsThrough(g, outcome, food) ==
    LET nextMove == getNextMove(g)
    IN  CASE outcome = "COLLISION" ->
                [g EXCEPT !.snake = moveSnake(g.snake, nextMove, TRUE),
                          !.status = "WON"]
          [] outcome = "FULL" ->
                [g EXCEPT !.snake = moveSnake(g.snake, nextMove, TRUE),
                          !.status = "WON"]
          [] outcome = "EAT" ->
                [g EXCEPT !.snake = moveSnake(g.snake, nextMove, TRUE),
                          !.foodCoords = food,
                          !.score = U8(g.score + 1),
                          !.speed = IF U8(g.score + 1) % 5 = 0
                                    THEN U8(g.speed + 1) ELSE g.speed]
          [] outcome = "MOVE" ->
                [g EXCEPT !.snake = moveSnake(g.snake, nextMove, FALSE)]

\* handleStepOutcome whose EAT case does not call placeFood
handleStepOutcome_EatKeepsFood(g, outcome, food) ==
    LET nextMove == getNextMove(g)
    IN  CASE outcome = "COLLISION" -> [g EXCEPT !.status = "LOST"]
          [] outcome = "FULL" ->
                [g EXCEPT !.snake = moveSnake(g.snake, nextMove, TRUE),
                          !.status = "WON"]
          [] outcome = "EAT" ->
                [g EXCEPT !.snake = moveSnake(g.snake, nextMove, TRUE),
                          !.score = U8(g.score + 1),
                          !.speed = IF U8(g.score + 1) % 5 = 0
                                    THEN U8(g.speed + 1) ELSE g.speed]
          [] outcome = "MOVE" ->
                [g EXCEPT !.snake = moveSnake(g.snake, nextMove, FALSE)]

\* handleStepOutcome whose FULL case also counts the last food
handleStepOutcome_FullScores(g, outcome, food) ==
    LET nextMove == getNextMove(g)
    IN  CASE outcome = "COLLISION" -> [g EXCEPT !.status = "LOST"]
          [] outcome = "FULL" ->
                [g EXCEPT !.snake = moveSnake(g.snake, nextMove, TRUE),
                          !.status = "WON",
                          !.score = U8(g.score + 1)]
          [] outcome = "EAT" ->
                [g EXCEPT !.snake = moveSnake(g.snake, nextMove, TRUE),
                          !.foodCoords = food,
                          !.score = U8(g.score + 1),
                          !.speed = IF U8(g.score + 1) % 5 = 0
                                    THEN U8(g.speed + 1) ELSE g.speed]
          [] outcome = "MOVE" ->
                [g EXCEPT !.snake = moveSnake(g.snake, nextMove, FALSE)]

\* the game after handleStepOutcome(outcome); food is what getRandomCoords
\* returns when placeFood is called
handleStepOutcome(g, outcome, food) ==
    LET nextMove == getNextMove(g)
    IN  CASE outcome = "COLLISION" -> [g EXCEPT !.status = "LOST"]
          [] outcome = "FULL" ->
                [g EXCEPT !.snake = moveSnake(g.snake, nextMove, TRUE),
                          !.status = "WON"]
          [] outcome = "EAT" ->
                [g EXCEPT !.snake = moveSnake(g.snake, nextMove, TRUE),
                          !.foodCoords = food,
                          !.score = U8(g.score + 1),
                          !.speed = IF U8(g.score + 1) % 5 = 0
                                    THEN U8(g.speed + 1) ELSE g.speed]
          [] outcome = "MOVE" ->
                [g EXCEPT !.snake = moveSnake(g.snake, nextMove, FALSE)]

\* turnSnake with one entry of the left turns reversing the snake
turnSnake_Reverse(direction, turn) ==
    CASE turn = "TURN_LEFT" ->
            (CASE direction = "UP"    -> "DOWN"
               [] direction = "DOWN"  -> "RIGHT"
               [] direction = "LEFT"  -> "DOWN"
               [] direction = "RIGHT" -> "UP")
      [] turn = "TURN_RIGHT" ->
            (CASE direction = "UP"    -> "RIGHT"
               [] direction = "DOWN"  -> "LEFT"
               [] direction = "LEFT"  -> "UP"
               [] direction = "RIGHT" -> "DOWN")
      [] turn = "TURN_NONE" -> direction

\* the direction after turnSnake(turn)
turnSnake(direction, turn) ==
    CASE turn = "TURN_LEFT" ->
            (CASE direction = "UP"    -> "LEFT"
               [] direction = "DOWN"  -> "RIGHT"
               [] direction = "LEFT"  -> "DOWN"
               [] direction = "RIGHT" -> "UP")
      [] turn = "TURN_RIGHT" ->
            (CASE direction = "UP"    -> "RIGHT"
               [] direction = "DOWN"  -> "LEFT"
               [] direction = "LEFT"  -> "UP"
               [] direction = "RIGHT" -> "DOWN")
      [] turn = "TURN_NONE" -> direction

\* the conversion (uint32_t) of an int32_t value, as the two 16-bit halves
\* of the result: its value is hi * 65536 + lo
U32(n) == [hi |-> (n \div 65536) % 65536, lo |-> n % 65536]

\* getStepLengthMs without the floor of 200 ms
getStepLengthMs_NoFloor(g) ==
    LET stepLength == 1000 - (200 * (g.speed - 1))
    IN  U32(stepLength)

getStepLengthMs(g) ==
    LET stepLength == 1000 - (200 * (g.speed - 1))
    IN  U32(IF stepLength < 200 THEN 200 ELSE stepLength)

\* the value the handlers store into currentTurn
handleButtonA(cur) == "TURN_LEFT"

\* handleButtonB that keeps a turn already pending
handleButtonB_KeepFirst(cur) ==
    IF cur = "TURN_NONE" THEN "TURN_RIGHT" ELSE cur

handleButtonB(cur) == "TURN_RIGHT"

\* the (col, row) pairs displayGameState passes to setPixelValue
displayGameState(g) ==
    {<<g.snake.head.col, g.snake.head.row>>}
      \cup {<<g.snake.tail[i + 1].col, g.snake.tail[i + 1].row>> :
                i \in 0 .. g.snake.tailLength - 1}
      \cup {<<g.foodCoords.col, g.foodCoords.row>>}

\* the (col, row) pairs displayScore passes to setPixelValue
displayScore(g) ==
    LET fullRows == g.score \div 5
        remainingCols == g.score % 5
    IN  {<<col, row>> : col \in 0 .. 4, row \in 0 .. fullRows - 1}
          \cup {<<col, fullRows>> : col \in 0 .. remainingCols - 1}

\* the game after initGame, before placeFood: the food is still the old one
initSnake ==
    [head |-> Coords(2, 2),
     tail |-> <<Coords(2, 1)>>,
     tailLength |-> 1,
     direction |-> "RIGHT"]

\* initGame starting the score at 1
initGame_ScoreOne(food) ==
    [snake |-> initSnake, foodCoords |-> food,
     speed |-> 1, status |-> "ONGOING", score |-> 1]

initGame(food) ==
    [snake |-> initSnake, foodCoords |-> food,
     speed |-> 1, status |-> "ONGOING", score |-> 0]

\* byAge after moveSnake on snake s: a non-extending move drops the cell in
\* tail[0], both kinds make the old head the newest tail cell
byAgeAfter(by, s, extend) ==
    IF extend THEN Append(by, s.head)
    ELSE Append(SelectSeq(by, LAMBDA c : c # s.tail[0 + 1]), s.head)

\* ------------------------------------------------- states of a long round
\* One round played from initGame in which every step eats: the turns of a
\* walk through all cells of the grid, the food each time sampled on the
\* cell ahead.  Replay(k) is the program's state after the first k steps of
\* that round (its food is the one eaten by step k).
ScriptTurn(k) ==
    IF k <= 3 THEN "TURN_NONE"
    ELSE CASE (k - 4) % 5 = 0 -> "TURN_RIGHT"
           [] (k - 4) % 5 = 1 -> "TURN_LEFT"
           [] OTHER -> "TURN_NONE"

\* step k of that round, taken in state r
ScriptStep(r, k) ==
    LET turned == [r.game EXCEPT
                     !.snake.direction = turnSnake(@, ScriptTurn(k))]
        g == [turned EXCEPT !.foodCoords = getNextMove(turned)]
    IN  [game |-> handleStepOutcome(g, getStepOutcome(g), g.foodCoords),
         byAge |-> byAgeAfter(r.byAge, g.snake, TRUE),
         before |-> g]

RECURSIVE ReplayFrom(_, _, _)
ReplayFrom(r, k, n) ==
    IF k > n \/ r.game.status # "ONGOING" THEN r
    ELSE ReplayFrom(ScriptStep(r, k), k + 1, n)

Replay(n) ==
    ReplayFrom([game |-> initGame(Coords(2, 2)),
                byAge |-> <<Coords(2, 1)>>,
                before |-> initGame(Coords(2, 2))], 1, n)

\* the rounds the exploration starts from: a fresh one and long ones
SeedLens == {0, 19, 20, 21}

\* ------------------------------------------------------------------ Init
Init ==
    \E k \in SeedLens :
        LET r == Replay(k)
        IN  /\ r.game.status = "ONGOING"
            /\ \E food \in getRandomCoords(r.game) :
                   game = [r.game EXCEPT !.foodCoords = food]
            /\ byAge = r.byAge
            /\ before = IF k = 0 THEN game ELSE r.before
            /\ lastOutcome = IF k = 0 THEN "NONE" ELSE "EAT"
            /\ currentTurn = "TURN_NONE"
            /\ pc = "sleep"
            /\ steps = 0
            /\ overwritten = FALSE
            /\ lastQueued = "TURN_NONE"
            /\ writeApplied = 0
            /\ sleepMs = getStepLengthMs(game)
            /\ resetCleared = "NO_RESET"

\* --------------------------------------------------------------- actions
\* main(), lines 118-119, and stepGame up to line 381: the sleep ends and
\* turnSnake(currentTurn) reads the pending turn
StepTurn ==
    /\ pc = "sleep"
    /\ steps < MaxSteps
    /\ game' = [game EXCEPT !.snake.direction = turnSnake(@, currentTurn)]
    /\ pc' = "clear"
    /\ steps' = steps + 1
    /\ writeApplied' = IF currentTurn # "TURN_NONE"
                       THEN writeApplied + 1 ELSE writeApplied
    /\ UNCHANGED <<currentTurn, overwritten, lastQueued, before,
                   byAge, lastOutcome, sleepMs, resetCleared>>

\* stepGame from line 382 on, then the loop test of line 116 and, when the
\* round goes on, displayGameState of line 117
StepRest ==
    /\ pc = "clear"
    /\ LET outcome == getStepOutcome(game)
           extend == outcome \in {"EAT", "FULL"}
           moving == handleStepOutcome(game, outcome, game.foodCoords)
       IN  /\ IF outcome = "EAT"
              THEN IF getRandomCoords(moving) = {}
                   THEN \* getRandomCoords never returns
                        /\ game' = [game EXCEPT !.snake = moving.snake]
                        /\ pc' = "spin"
                   ELSE /\ \E food \in getRandomCoords(moving) :
                               game' = handleStepOutcome(game, outcome, food)
                        /\ pc' = "sleep"
              ELSE /\ game' = moving
                   /\ pc' = IF moving.status = "ONGOING" THEN "sleep" ELSE "flash"
           /\ lastOutcome' = outcome
           /\ before' = game
           /\ byAge' = IF outcome = "COLLISION" THEN byAge
                       ELSE byAgeAfter(byAge, game.snake, extend)
    /\ currentTurn' = "TURN_NONE"
    /\ overwritten' = FALSE
    /\ lastQueued' = "TURN_NONE"
    /\ writeApplied' = 0
    /\ sleepMs' = IF pc' = "sleep" THEN getStepLengthMs(game') ELSE sleepMs
    /\ resetCleared' = "NO_RESET"
    /\ UNCHANGED steps

\* lines 123-128: the three flashes of the final state (clear, sleep,
\* displayGameState, sleep); nothing they read is written meanwhile
Flash ==
    /\ pc = "flash"
    /\ pc' = "score"
    /\ UNCHANGED <<game, currentTurn, steps, overwritten, lastQueued,
                   writeApplied, before, byAge, lastOutcome, sleepMs,
                   resetCleared>>

\* the end of a round calling initGame where resetGame is meant: the pending
\* turn is not cleared
ResetGame_KeepsTurn ==
    /\ pc = "score"
    /\ \E food \in getRandomCoords(initGame(game.foodCoords)) :
           game' = initGame(food)
    /\ pc' = "sleep"
    /\ overwritten' = FALSE
    /\ lastQueued' = "TURN_NONE"
    /\ writeApplied' = 0
    /\ before' = game'
    /\ byAge' = <<Coords(2, 1)>>
    /\ lastOutcome' = "NONE"
    /\ steps' = 0
    /\ sleepMs' = getStepLengthMs(game')
    /\ resetCleared' = currentTurn
    /\ UNCHANGED currentTurn

\* lines 131-136: displayScore, the sleep and resetGame, then lines 116-117
\* of the next round
ResetGame ==
    /\ pc = "score"
    /\ \E food \in getRandomCoords(initGame(game.foodCoords)) :
           game' = initGame(food)
    /\ currentTurn' = "TURN_NONE"
    /\ pc' = "sleep"
    /\ overwritten' = FALSE
    /\ lastQueued' = "TURN_NONE"
    /\ writeApplied' = 0
    /\ before' = game'
    /\ byAge' = <<Coords(2, 1)>>
    /\ lastOutcome' = "NONE"
    /\ steps' = 0
    /\ sleepMs' = getStepLengthMs(game')
    /\ resetCleared' = currentTurn

\* a button handler that turns the snake itself instead of queueing the turn
ButtonA_TurnsNow ==
    /\ pc \in {"sleep", "clear", "flash", "score", "spin"}
    /\ game' = [game EXCEPT !.snake.direction = turnSnake(@, "TURN_LEFT")]
    /\ UNCHANGED <<currentTurn, pc, steps, overwritten, lastQueued,
                   writeApplied, before, byAge, lastOutcome, sleepMs,
                   resetCleared>>

\* the button handlers: they run at any position of main()
ButtonA ==
    /\ pc \in {"sleep", "clear", "flash", "score", "spin"}
    /\ currentTurn' = handleButtonA(currentTurn)
    /\ overwritten' = IF pc = "clear" THEN overwritten
                      ELSE (overwritten \/ lastQueued # "TURN_NONE")
    /\ lastQueued' = IF pc = "clear" THEN lastQueued ELSE "TURN_LEFT"
    /\ writeApplied' = 0
    /\ UNCHANGED <<game, pc, steps, before, byAge, lastOutcome, sleepMs,
                   resetCleared>>

ButtonB ==
    /\ pc \in {"sleep", "clear", "flash", "score", "spin"}
    /\ currentTurn' = handleButtonB(currentTurn)
    /\ overwritten' = IF pc = "clear" THEN overwritten
                      ELSE (overwritten \/ lastQueued # "TURN_NONE")
    /\ lastQueued' = IF pc = "clear" THEN lastQueued ELSE "TURN_RIGHT"
    /\ writeApplied' = 0
    /\ UNCHANGED <<game, pc, steps, before, byAge, lastOutcome, sleepMs,
                   resetCleared>>

Next ==
    \/ StepTurn
    \/ StepRest
    \/ Flash
    \/ ResetGame
    \/ ButtonA
    \/ ButtonB

Spec == Init /\ [][Next]_vars

\* ------------------------------------------- getStepLengthMs on its own
\* every value of the uint8_t speed but 0
Speeds == 1 .. 255

\* main() at line 117 of a game with any speed, before the sleep of line 118
InitStepLength ==
    /\ \E v \in Speeds :
           game = [initGame(Coords(0, 0)) EXCEPT !.speed = v]
    /\ before = game
    /\ byAge = <<Coords(2, 1)>>
    /\ lastOutcome = "NONE"
    /\ currentTurn = "TURN_NONE"
    /\ pc = "loop"
    /\ steps = 0
    /\ overwritten = FALSE
    /\ lastQueued = "TURN_NONE"
    /\ writeApplied = 0
    /\ sleepMs = U32(0)
    /\ resetCleared = "NO_RESET"

\* line 118: uBit.sleep(getStepLengthMs())
Sleep ==
    /\ pc = "loop"
    /\ pc' = "sleep"
    /\ sleepMs' = getStepLengthMs(game)
    /\ UNCHANGED <<game, currentTurn, steps, overwritten, lastQueued,
                   writeApplied, before, byAge, lastOutcome, resetCleared>>

SpecStepLength == InitStepLength /\ [][Sleep]_vars

TypeOK ==
    /\ game.status \in GameStatus
    /\ game.snake.direction \in Direction
    /\ currentTurn \in Turn
    /\ pc \in {"loop", "sleep", "clear", "flash", "score", "spin"}

\* ------------------------------------------------------------ the claims
TailCells(g) == {g.snake.tail[i + 1] : i \in 0 .. g.snake.tailLength - 1}

Stepped == lastOutcome # "NONE"

InGrid(col, row) ==
    /\ col \in 0 .. GRID_SIZE - 1
    /\ row \in 0 .. GRID_SIZE - 1

\* C1: in every reachable state the head is on none of the tail cells
\* tail[0 .. tailLength-1], and those tail cells are pairwise distinct.
C1_NoSelfOverlap ==
    /\ \A i \in 0 .. game.snake.tailLength - 1 :
           ~coordsEqual(game.snake.head, game.snake.tail[i + 1])
    /\ \A i, j \in 0 .. game.snake.tailLength - 1 :
           i # j => ~coordsEqual(game.snake.tail[i + 1], game.snake.tail[j + 1])

\* a plain move has put the head on the cell that tail[0] held
C1_Witness ==
    /\ lastOutcome = "MOVE"
    /\ before.snake.tailLength >= 3
    /\ coordsEqual(game.snake.head, before.snake.tail[0 + 1])

\* C2 as stated: tailLength <= MAX_SNAKE_LENGTH - 1 in every reachable
\* state, the one after the step that sets WON included.
C2_Original == game.snake.tailLength <= MAX_SNAKE_LENGTH - 1

\* C2 as amended: tailLength <= MAX_SNAKE_LENGTH in every reachable state
\* and <= MAX_SNAKE_LENGTH - 1 in every state whose status is not WON; in
\* a WON state it is exactly MAX_SNAKE_LENGTH.
C2_TailLengthBound ==
    /\ game.snake.tailLength <= MAX_SNAKE_LENGTH
    /\ game.status # "WON" => game.snake.tailLength <= MAX_SNAKE_LENGTH - 1
    /\ game.status = "WON" => game.snake.tailLength = MAX_SNAKE_LENGTH

C2_Witness ==
    /\ game.status = "WON"
    /\ game.snake.tailLength = MAX_SNAKE_LENGTH
    /\ Len(game.snake.tail) = MAX_SNAKE_LENGTH

\* C3 as stated: a step of a snake with tailLength >= 2 whose candidate is
\* not the food loses if the candidate is a body segment other than the
\* trailing one and does not lose if it is the trailing one, the trailing
\* segment being the tail cell that has been in the body longest.
C3_Original ==
    [][(/\ pc = "clear" /\ pc' # "clear"
        /\ game.snake.tailLength >= 2
        /\ ~coordsEqual(getNextMove(game), game.foodCoords))
       => LET candidate == getNextMove(game)
              trailing == byAge[1]
          IN  /\ candidate \in (TailCells(game) \ {trailing})
                    => game'.status = "LOST"
              /\ candidate = trailing => game'.status # "LOST"]_vars

\* C4 as stated: a step from tailLength = MAX_SNAKE_LENGTH - 2 whose
\* candidate is the food sets WON and grows the tail by one.
C4_Original ==
    (/\ Stepped
     /\ before.snake.tailLength = MAX_SNAKE_LENGTH - 2
     /\ coordsEqual(getNextMove(before), before.foodCoords))
    => /\ game.status = "WON"
       /\ game.snake.tailLength = before.snake.tailLength + 1

\* C4 as amended: a step from tailLength = MAX_SNAKE_LENGTH - 1 whose
\* candidate is the food sets WON and grows the tail by one; the same step
\* from tailLength = MAX_SNAKE_LENGTH - 2 grows the tail by one and leaves
\* the status ONGOING.
C4_WinAtFullLength ==
    (Stepped /\ coordsEqual(getNextMove(before), before.foodCoords))
    => /\ before.snake.tailLength = MAX_SNAKE_LENGTH - 1
            => /\ game.status = "WON"
               /\ game.snake.tailLength = before.snake.tailLength + 1
       /\ before.snake.tailLength = MAX_SNAKE_LENGTH - 2
            => /\ game.status = "ONGOING"
               /\ game.snake.tailLength = before.snake.tailLength + 1

C4_Witness ==
    /\ lastOutcome = "FULL"
    /\ before.snake.tailLength = MAX_SNAKE_LENGTH - 1
    /\ coordsEqual(getNextMove(before), before.foodCoords)
    /\ game.status = "WON"

\* C5: while the status is ONGOING the food is neither on the head nor on
\* a tail cell; in particular the cell the sampler returned is free.
C5_FoodOffSnake ==
    game.status = "ONGOING"
    => /\ ~coordsEqual(game.foodCoords, game.snake.head)
       /\ game.foodCoords \notin TailCells(game)

\* the sampler has placed new food after the snake ate
C5_Witness ==
    /\ steps > 0
    /\ lastOutcome = "EAT"
    /\ pc = "sleep"
    /\ ~coordsEqual(game.foodCoords, before.foodCoords)
    /\ ~coordsInSnake(game, game.foodCoords)

\* C6: getRandomCoords is never called with the snake on every cell: it
\* never spins, and the snake it was called with leaves a cell free.
C6_SamplerHasFreeCell ==
    /\ pc # "spin"
    /\ lastOutcome \in {"NONE", "EAT"} =>
           Cardinality({game.snake.head} \cup TailCells(game))
               < GRID_SIZE * GRID_SIZE

\* the sampler was called with a single free cell
C6_Witness ==
    /\ steps > 0
    /\ lastOutcome = "EAT"
    /\ Cardinality({game.snake.head} \cup TailCells(game))
           = GRID_SIZE * GRID_SIZE - 1

\* C7 as stated: no turn a handler wrote is cleared by stepGame unless a
\* step applied it (once) or a later write replaced it.
C7_Original ==
    [][(pc = "clear" /\ pc' # "clear" /\ currentTurn # "TURN_NONE")
       => writeApplied = 1]_vars

\* the turn table of the specification
TurnTable(d, t) ==
    CASE t = "TURN_NONE" -> d
      [] t = "TURN_LEFT" /\ d = "UP" -> "LEFT"
      [] t = "TURN_LEFT" /\ d = "DOWN" -> "RIGHT"
      [] t = "TURN_LEFT" /\ d = "LEFT" -> "DOWN"
      [] t = "TURN_LEFT" /\ d = "RIGHT" -> "UP"
      [] t = "TURN_RIGHT" /\ d = "UP" -> "RIGHT"
      [] t = "TURN_RIGHT" /\ d = "DOWN" -> "LEFT"
      [] t = "TURN_RIGHT" /\ d = "LEFT" -> "UP"
      [] t = "TURN_RIGHT" /\ d = "RIGHT" -> "DOWN"

\* C8: the direction a step uses is the direction of the step before it
\* turned once by the last turn queued between the two steps (unchanged
\* when none was queued), and the step leaves the pending turn NONE.
C8_LastTurnWins ==
    /\ pc = "clear"
           => game.snake.direction = TurnTable(before.snake.direction, lastQueued)
    /\ (pc \in {"sleep", "flash"} /\ lastQueued = "TURN_NONE")
           => currentTurn = "TURN_NONE"

\* two turns were queued before one step, which used the second
C8_Witness ==
    /\ pc = "clear"
    /\ overwritten
    /\ lastQueued = "TURN_RIGHT"
    /\ before.snake.direction = "RIGHT"
    /\ game.snake.direction = "DOWN"

Opposite(d) ==
    CASE d = "UP" -> "DOWN"
      [] d = "DOWN" -> "UP"
      [] d = "LEFT" -> "RIGHT"
      [] d = "RIGHT" -> "LEFT"

HeadMoved == lastOutcome \in {"MOVE", "EAT", "FULL"}

\* C9: whatever turn is pending, a step never reverses the direction, and
\* its candidate is never the cell the head left by its previous move.
C9_NoReversal ==
    /\ pc = "sleep" =>
           \A t \in Turn :
               LET turned == [game EXCEPT
                                !.snake.direction = turnSnake(@, t)]
               IN  /\ turned.snake.direction # Opposite(game.snake.direction)
                   /\ HeadMoved =>
                          ~coordsEqual(getNextMove(turned), before.snake.head)
    /\ pc = "clear" =>
           /\ game.snake.direction # Opposite(before.snake.direction)
           /\ HeadMoved => ~coordsEqual(getNextMove(game), before.snake.head)

\* a step has turned the snake after an earlier move
C9_Witness ==
    /\ pc = "clear"
    /\ lastOutcome = "MOVE"
    /\ game.snake.direction # before.snake.direction

\* C10: every coordinate given to the display is in [0, GRID_SIZE): those
\* of displayGameState, the candidate cell, and those of displayScore.
C10_DisplayInRange ==
    /\ \A px \in displayGameState(game) : InGrid(px[1], px[2])
    /\ \A px \in displayScore(game) : InGrid(px[1], px[2])
    /\ InGrid(getNextMove(game).col, getNextMove(game).row)

\* the head has wrapped from column GRID_SIZE - 1 to column 0
C10_Witness ==
    /\ HeadMoved
    /\ before.snake.head.col = GRID_SIZE - 1
    /\ before.snake.direction = "RIGHT"
    /\ game.snake.head.col = 0
    /\ game.score > 0

\* C11: a step that eats grows the tail by one, adds one to the score and
\* adds one to the speed exactly when the new score is a multiple of 5; a
\* plain move leaves tailLength, score, speed and the food as they were.
C11_EatAndMoveEffects ==
    /\ lastOutcome = "EAT" =>
           /\ game.snake.tailLength = before.snake.tailLength + 1
           /\ game.score = before.score + 1
           /\ game.speed = IF game.score % 5 = 0
                           THEN before.speed + 1 ELSE before.speed
    /\ lastOutcome = "MOVE" =>
           /\ game.snake.tailLength = before.snake.tailLength
           /\ game.score = before.score
           /\ game.speed = before.speed
           /\ game.foodCoords = before.foodCoords

\* a step has eaten the food that made the score a multiple of 5
C11_Witness ==
    /\ steps > 0
    /\ lastOutcome = "EAT"
    /\ game.score % 5 = 0
    /\ game.speed = before.speed + 1

\* C12: a step whose outcome is COLLISION sets the status to LOST and
\* changes nothing else of the game.
C12_CollisionFrame ==
    lastOutcome = "COLLISION" =>
        /\ game.status = "LOST"
        /\ game.snake.head = before.snake.head
        /\ game.snake.tail = before.snake.tail
        /\ game.snake.tailLength = before.snake.tailLength
        /\ game.foodCoords = before.foodCoords
        /\ game.score = before.score
        /\ game.speed = before.speed

\* a snake with several tail cells has run into itself
C12_Witness ==
    /\ lastOutcome = "COLLISION"
    /\ game.status = "LOST"
    /\ before.snake.tailLength >= 2
    /\ coordsInSnake(before, getNextMove(before))

\* C13: once the status is WON or LOST nothing but resetGame changes the
\* game (status, snake, food, score, speed), whatever the button handlers
\* do, and stepGame is entered only while the status is ONGOING.
C13_TerminalFrozen ==
    [][/\ game.status # "ONGOING"
           => \/ game' = game
              \/ pc = "score" /\ pc' = "sleep" /\ game'.status = "ONGOING"
       /\ (pc # "clear" /\ pc' = "clear") => game.status = "ONGOING"]_vars

\* a handler has fired during the end-of-round display of a lost round
C13_Witness ==
    /\ pc = "score"
    /\ game.status = "LOST"
    /\ lastOutcome = "COLLISION"
    /\ currentTurn # "TURN_NONE"

\* the configuration the specification gives a fresh game, its food apart
IsInitialConfiguration(g) ==
    /\ g.status = "ONGOING"
    /\ g.score = 0
    /\ g.speed = 1
    /\ g.snake.tailLength = 1
    /\ g.snake.head = Coords(2, 2)
    /\ g.snake.tail[0 + 1] = Coords(2, 1)
    /\ g.snake.direction = "RIGHT"
    /\ ~coordsEqual(g.foodCoords, g.snake.head)
    /\ g.foodCoords \notin TailCells(g)

\* C14: resetGame called in any state that reaches line 136 gives the initial
\* configuration with the food off the snake and the pending turn NONE; a
\* second resetGame gives the same but for the food; the first step of the
\* next round turns only by a turn queued after resetGame.
C14_ResetConfiguration ==
    /\ pc = "score" =>
           \A food \in getRandomCoords(initGame(game.foodCoords)) :
               IsInitialConfiguration(initGame(food))
    /\ (resetCleared # "NO_RESET" /\ pc = "sleep") =>
           /\ IsInitialConfiguration(game)
           /\ lastQueued = "TURN_NONE" => currentTurn = "TURN_NONE"
           /\ \A food \in getRandomCoords(initGame(game.foodCoords)) :
                  [initGame(food) EXCEPT !.foodCoords = game.foodCoords] = game
    /\ (resetCleared # "NO_RESET" /\ pc = "clear") =>
           /\ IsInitialConfiguration([game EXCEPT !.snake.direction = "RIGHT"])
           /\ game.snake.direction = TurnTable("RIGHT", lastQueued)

\* resetGame discarded a turn queued during the end-of-round display and
\* the first step of the next round went straight on
C14_Witness ==
    /\ resetCleared \in {"TURN_LEFT", "TURN_RIGHT"}
    /\ pc = "clear"
    /\ steps = 1
    /\ lastQueued = "TURN_NONE"
    /\ game.snake.direction = "RIGHT"

Max(a, b) == IF a >= b THEN a ELSE b

\* C15: for every speed in 1 .. 255 the step length is
\* max(200, 1000 - 200 * (speed - 1)) as an unsigned 32-bit value (nothing
\* wraps), lies in 200 .. 1000 and is no longer than that of any lower
\* speed.
C15_StepLength ==
    pc = "sleep" =>
        /\ sleepMs.hi = 0
        /\ sleepMs.lo = Max(200, 1000 - 200 * (game.speed - 1))
        /\ sleepMs.lo >= 200
        /\ sleepMs.lo <= 1000
        /\ \A v \in Speeds :
               v <= game.speed =>
                   LET slower == getStepLengthMs([game EXCEPT !.speed = v])
                   IN  slower.hi = 0 /\ slower.lo >= sleepMs.lo

\* the step length of the highest speed is the floor
C15_Witness ==
    /\ pc = "sleep"
    /\ game.speed = 255
    /\ sleepMs = [hi |-> 0, lo |-> 200]

\* neighbours on the torus: one step apart on one axis, equal on the other
Adjacent(a, b) ==
    \/ a.row = b.row /\ (a.col - b.col) % GRID_SIZE \in {1, GRID_SIZE - 1}
    \/ a.col = b.col /\ (a.row - b.row) % GRID_SIZE \in {1, GRID_SIZE - 1}

\* C16 as stated: tail[0] is the cell the head left by its last move and
\* is next to the head, every tail[i + 1] is next to tail[i], and the
\* array holds the tail cells from the newest to the one longest in the
\* body.
C16_Original ==
    /\ Adjacent(game.snake.head, game.snake.tail[0 + 1])
    /\ HeadMoved => game.snake.tail[0 + 1] = before.snake.head
    /\ \A i \in 0 .. game.snake.tailLength - 2 :
           Adjacent(game.snake.tail[i + 1], game.snake.tail[i + 1 + 1])
    /\ \A i \in 0 .. game.snake.tailLength - 1 :
           game.snake.tail[i + 1] = byAge[game.snake.tailLength - i]

\* the cells displayGameState draws: the head, the tail cells, the food
Rendering == pc \in {"sleep", "flash"}

\* the head and the tailLength tail cells are that many different cells
SnakeCellsDistinct(g) ==
    /\ g.snake.head \notin TailCells(g)
    /\ Cardinality(TailCells(g)) = g.snake.tailLength

\* C17 as stated: whenever displayGameState is called, in the ONGOING loop
\* and in the flashes of a WON or LOST round, the head cell, the tail
\* cells and the food cell are pairwise distinct.
C17_Original ==
    Rendering
    => /\ SnakeCellsDistinct(game)
       /\ game.foodCoords # game.snake.head
       /\ game.foodCoords \notin TailCells(game)

\* C17 as amended: whenever displayGameState is called the head cell and
\* the tail cells are pairwise distinct; in the ONGOING loop and in the
\* flashes of a LOST round the food cell is distinct from all of them; in
\* the flashes of a WON round the food cell is the head cell.
C17_RenderCells ==
    Rendering
    => /\ SnakeCellsDistinct(game)
       /\ game.foodCoords \notin TailCells(game)
       /\ game.status \in {"ONGOING", "LOST"}
              => game.foodCoords # game.snake.head
       /\ game.status = "WON" => game.foodCoords = game.snake.head

C17_Witness ==
    /\ pc = "flash"
    /\ game.status = "WON"
    /\ lastOutcome = "FULL"
    /\ game.foodCoords = game.snake.head
    /\ SnakeCellsDistinct(game)

\* C18: the status is WON only after a step whose candidate was the food
\* while tailLength >= MAX_SNAKE_LENGTH - 1; that step grew the snake by
\* one, placed no food and changed neither score nor speed; in a WON state
\* the head and the tail cells are all GRID_SIZE * GRID_SIZE cells.
C18_WonOnlyByFullStep ==
    game.status = "WON"
    => /\ lastOutcome = "FULL"
       /\ before.status = "ONGOING"
       /\ before.snake.tailLength >= MAX_SNAKE_LENGTH - 1
       /\ coordsEqual(getNextMove(before), before.foodCoords)
       /\ game.snake.tailLength = before.snake.tailLength + 1
       /\ game.snake.head = getNextMove(before)
       /\ game.foodCoords = before.foodCoords
       /\ game.score = before.score
       /\ game.speed = before.speed
       /\ {game.snake.head} \cup TailCells(game) = Grid
       /\ Cardinality({game.snake.head} \cup TailCells(game))
              = GRID_SIZE * GRID_SIZE

C18_Witness ==
    /\ game.status = "WON"
    /\ pc = "score"
    /\ lastOutcome = "FULL"
    /\ game.score = before.score
    /\ Cardinality({game.snake.head} \cup TailCells(game)) = GRID_SIZE * GRID_SIZE

\* C19: while the status is ONGOING or LOST the score is tailLength - 1
\* and the speed is 1 + score div 5; the score never exceeds 22 and the
\* speed never exceeds 5.
C19_ScoreAndSpeed ==
    /\ game.status \in {"ONGOING", "LOST"}
           => /\ game.score = game.snake.tailLength - 1
              /\ game.speed = 1 + (game.score \div 5)
    /\ game.score <= MAX_SNAKE_LENGTH - 2
    /\ game.speed <= 5

C19_Witness ==
    /\ lastOutcome = "EAT"
    /\ game.status = "ONGOING"
    /\ before.score = MAX_SNAKE_LENGTH - 3
    /\ game.score = MAX_SNAKE_LENGTH - 2
    /\ game.snake.tailLength = MAX_SNAKE_LENGTH - 1
    /\ game.speed = 5

\* the indices of the array Coords tail[MAX_SNAKE_LENGTH]
TailIndices == 0 .. MAX_SNAKE_LENGTH - 1

\* C20: tailLength is at least 1, and every index of tail[] used by
\* coordsInSnake (called by getStepOutcome on the candidate and, after
\* initGame and after an EAT, by the sampler on any cell), by
\* displayGameState on the current game, by the moveSnake of the step just
\* taken and by the moveSnake of the step the current game takes next (the
\* extending shift of a FULL step included) is in 0 .. MAX_SNAKE_LENGTH - 1.
C20_TailIndicesInRange ==
    /\ game.snake.tailLength >= 1
    /\ game.snake.tailLength - 1 \in TailIndices
    /\ coordsInSnakeIndices(game, getNextMove(game)) \subseteq TailIndices
    /\ lastOutcome \in {"NONE", "EAT"}
           => \A coords \in Grid :
                  coordsInSnakeIndices(game, coords) \subseteq TailIndices
    /\ displayGameStateIndices(game) \subseteq TailIndices
    /\ lastOutcome \in {"MOVE", "EAT", "FULL"}
           => moveSnakeIndices(before.snake, lastOutcome \in {"EAT", "FULL"})
                  \subseteq TailIndices
    /\ (game.status = "ONGOING" /\ getStepOutcome(game) # "COLLISION")
           => moveSnakeIndices(game.snake, getStepOutcome(game) \in {"EAT", "FULL"})
                  \subseteq TailIndices

C20_Witness ==
    /\ lastOutcome = "FULL"
    /\ before.snake.tailLength = MAX_SNAKE_LENGTH - 1
    /\ MAX_SNAKE_LENGTH - 1 \in moveSnakeIndices(before.snake, TRUE)
    /\ game.snake.tailLength = MAX_SNAKE_LENGTH
    /\ MAX_SNAKE_LENGTH - 1 \in displayGameStateIndices(game)

====
